---------------------------- MODULE Spec2Model ----------------------------
(***************************************************************************)
(* A model of three components of lightning-thunder:                       *)
(*   - thunder/core/script/python_ir_data.py: the bytecode stack-effect    *)
(*     table and stack_effect_detail (specification SpecStack);            *)
(*   - thunder/executors/torch_autograd.py: insert_bsym_to_allreduce_grads *)
(*     (specification SpecAllReduce) and split_forward_backward            *)
(*     (specification SpecSplit);                                          *)
(*   - benchmarks/nanogpt_training_bench.py: the benchmark script          *)
(*     (specification SpecBench).                                          *)
(***************************************************************************)
EXTENDS Integers, Sequences, FiniteSets, TLC

VARIABLES
    \* ---- python_ir_data.py: one call of stack_effect_detail
    opname,          \* argument opname
    oparg,           \* argument oparg
    jump,            \* keyword argument jump
    se_result,       \* outcome of the call: NotCalled, a returned pair or a raised ValueError
    \* ---- torch_autograd.py: one call of insert_bsym_to_allreduce_grads
    backward_trace,  \* bound_symbols of the argument backward_trace
    world_size,      \* pg.size() of the process group
    ar_pc,           \* position in the call: "start", "visit", "done"
    gradients,       \* the flattened backward_trace.output
    grad_to_future,  \* the ProxyDict grad_to_future, keyed by proxy name
    visit_index,     \* index of the bound symbol visitor_transform visits next
    new_bsyms,       \* bound_symbols of the trace being built
    next_name,       \* number of the next proxy name the trace hands out
    \* ---- torch_autograd.py: one call of split_forward_backward
    flat_args,       \* the flattened bound arguments: is it a tensor, its requires_grad
    compile_stats,   \* the statistics record, or NoStats when compile_stats is None
    use_cudagraphs,  \* compile_data.use_cudagraphs and compile_config's "use_cudagraphs"
    num_constant_args, \* compile_data.num_constant_args
    num_saved,       \* len(bw_extrace.args[0][0]), the number of saved tensors
    sp_pc,           \* the statement the call executes next
    requires_grad_mask,
    bw_return,       \* bw_trace.bound_symbols[-1].args[0], the returned gradient tuple
    calls,           \* the tracing, differentiation and optimization calls made so far
    sp_result,       \* outcome of the call: NotCalled, the returned pair or RuntimeError
    \* ---- nanogpt_training_bench.py: one process running the script
    args,            \* the parsed command line
    environ,         \* WORLD_SIZE and LOCAL_RANK present or not, and the process's ranks
    b_pc,            \* the statement the script executes next
    b_error,         \* the exception that ended the script, "" when none has
    use_ddp,
    local_rank,      \* None or LOCAL_RANK
    model,           \* what has been done to the model: built, wrapped, compiled
    save_files,
    dir_for_outputs, \* None or the name of the output directory
    stage,           \* loop variable of line 156
    k,               \* loop variable of line 173
    context,         \* "nullcontext" or "profiler"
    put_nvtx_markers,
    losses,          \* the list losses: the buffered loss of step <<stage, k>>
    steps_run,       \* the number of steps completed in each stage
    step_events,     \* what the current step has done so far, in order
    stdout           \* the lines printed, by kind, in order

seVars == <<opname, oparg, jump, se_result>>
arVars == <<backward_trace, world_size, ar_pc, gradients, grad_to_future, visit_index,
            new_bsyms, next_name>>

spVars == <<flat_args, compile_stats, use_cudagraphs, num_constant_args, num_saved, sp_pc,
            requires_grad_mask, bw_return, calls, sp_result>>

bVars == <<args, environ, b_pc, b_error, use_ddp, local_rank, model, save_files,
           dir_for_outputs, stage, k, context, put_nvtx_markers, losses, steps_run,
           step_events, stdout>>

vars == <<seVars, arVars, spVars, bVars>>

----------------------------------------------------------------------------
(***************************************************************************)
(* python_ir_data.py                                                       *)
(***************************************************************************)

\* Largest operand passed to stack_effect_detail.
MaxOparg == 520

\* The dict literal of lines 11-122, key :> (pop, push).
fixed_stack_effects_detail ==
       "NOP" :> <<0, 0>>
    @@ "EXTENDED_ARG" :> <<0, 0>>
    @@ "POP_TOP" :> <<1, 0>>
    @@ "ROT_TWO" :> <<2, 2>>
    @@ "ROT_THREE" :> <<3, 3>>
    @@ "ROT_FOUR" :> <<4, 4>>
    @@ "DUP_TOP" :> <<1, 2>>
    @@ "DUP_TOP_TWO" :> <<2, 4>>
    @@ "UNARY_POSITIVE" :> <<1, 1>>
    @@ "UNARY_NEGATIVE" :> <<1, 1>>
    @@ "UNARY_NOT" :> <<1, 1>>
    @@ "UNARY_INVERT" :> <<1, 1>>
    @@ "SET_ADD" :> <<2, 1>>
    @@ "LIST_APPEND" :> <<2, 1>>
    @@ "MAP_ADD" :> <<3, 1>>
    @@ "BINARY_POWER" :> <<2, 1>>
    @@ "BINARY_MULTIPLY" :> <<2, 1>>
    @@ "BINARY_MATRIX_MULTIPLY" :> <<2, 1>>
    @@ "BINARY_MODULO" :> <<2, 1>>
    @@ "BINARY_ADD" :> <<2, 1>>
    @@ "BINARY_SUBTRACT" :> <<2, 1>>
    @@ "BINARY_SUBSCR" :> <<2, 1>>
    @@ "BINARY_FLOOR_DIVIDE" :> <<2, 1>>
    @@ "BINARY_TRUE_DIVIDE" :> <<2, 1>>
    @@ "INPLACE_FLOOR_DIVIDE" :> <<2, 1>>
    @@ "INPLACE_TRUE_DIVIDE" :> <<2, 1>>
    @@ "INPLACE_ADD" :> <<2, 1>>
    @@ "INPLACE_SUBTRACT" :> <<2, 1>>
    @@ "INPLACE_MULTIPLY" :> <<2, 1>>
    @@ "INPLACE_MATRIX_MULTIPLY" :> <<2, 1>>
    @@ "INPLACE_MODULO" :> <<2, 1>>
    @@ "BINARY_LSHIFT" :> <<2, 1>>
    @@ "BINARY_RSHIFT" :> <<2, 1>>
    @@ "BINARY_AND" :> <<2, 1>>
    @@ "BINARY_XOR" :> <<2, 1>>
    @@ "BINARY_OR" :> <<2, 1>>
    @@ "INPLACE_POWER" :> <<2, 1>>
    @@ "INPLACE_LSHIFT" :> <<2, 1>>
    @@ "INPLACE_RSHIFT" :> <<2, 1>>
    @@ "INPLACE_AND" :> <<2, 1>>
    @@ "INPLACE_XOR" :> <<2, 1>>
    @@ "INPLACE_OR" :> <<2, 1>>
    @@ "STORE_SUBSCR" :> <<3, 0>>
    @@ "DELETE_SUBSCR" :> <<2, 0>>
    @@ "GET_ITER" :> <<1, 1>>
    @@ "PRINT_EXPR" :> <<1, 0>>
    @@ "LOAD_BUILD_CLASS" :> <<0, 1>>
    @@ "RETURN_VALUE" :> <<1, 0>>
    @@ "IMPORT_STAR" :> <<1, 0>>
    @@ "SETUP_ANNOTATIONS" :> <<0, 0>>
    @@ "YIELD_VALUE" :> <<1, 1>>
    @@ "YIELD_FROM" :> <<2, 1>>
    @@ "POP_BLOCK" :> <<0, 0>>
    @@ "POP_EXCEPT" :> <<3, 0>>
    @@ "STORE_NAME" :> <<1, 0>>
    @@ "DELETE_NAME" :> <<0, 0>>
    @@ "STORE_ATTR" :> <<2, 0>>
    @@ "DELETE_ATTR" :> <<1, 0>>
    @@ "STORE_GLOBAL" :> <<1, 0>>
    @@ "DELETE_GLOBAL" :> <<0, 0>>
    @@ "LOAD_CONST" :> <<0, 1>>
    @@ "LOAD_NAME" :> <<0, 1>>
    @@ "LOAD_ATTR" :> <<1, 1>>
    @@ "COMPARE_OP" :> <<2, 1>>
    @@ "IS_OP" :> <<2, 1>>
    @@ "CONTAINS_OP" :> <<2, 1>>
    @@ "JUMP_IF_NOT_EXC_MATCH" :> <<2, 0>>
    @@ "IMPORT_NAME" :> <<2, 1>>
    @@ "IMPORT_FROM" :> <<1, 2>>
    @@ "JUMP_FORWARD" :> <<0, 0>>
    @@ "JUMP_ABSOLUTE" :> <<0, 0>>
    @@ "POP_JUMP_IF_FALSE" :> <<1, 0>>
    @@ "POP_JUMP_IF_TRUE" :> <<1, 0>>
    @@ "LOAD_GLOBAL" :> <<0, 1>>
    @@ "RERAISE" :> <<3, 0>>
    @@ "WITH_EXCEPT_START" :> <<7, 8>>
    @@ "LOAD_FAST" :> <<0, 1>>
    @@ "STORE_FAST" :> <<1, 0>>
    @@ "DELETE_FAST" :> <<0, 0>>
    @@ "LOAD_CLOSURE" :> <<0, 1>>
    @@ "LOAD_DEREF" :> <<0, 1>>
    @@ "LOAD_CLASSDEREF" :> <<0, 1>>
    @@ "STORE_DEREF" :> <<1, 0>>
    @@ "DELETE_DEREF" :> <<0, 0>>
    @@ "GET_AWAITABLE" :> <<1, 1>>
    @@ "BEFORE_ASYNC_WITH" :> <<1, 2>>
    @@ "GET_AITER" :> <<1, 1>>
    @@ "GET_ANEXT" :> <<1, 2>>
    @@ "GET_YIELD_FROM_ITER" :> <<1, 1>>
    @@ "END_ASYNC_FOR" :> <<7, 0>>
    @@ "LOAD_METHOD" :> <<1, 2>>
    @@ "LOAD_ASSERTION_ERROR" :> <<0, 1>>
    @@ "LIST_TO_TUPLE" :> <<1, 1>>
    @@ "GEN_START" :> <<1, 0>>
    @@ "LIST_EXTEND" :> <<2, 1>>
    @@ "SET_UPDATE" :> <<2, 1>>
    @@ "DICT_MERGE" :> <<2, 1>>
    @@ "DICT_UPDATE" :> <<2, 1>>
    @@ "COPY_DICT_WITHOUT_KEYS" :> <<2, 2>>
    @@ "MATCH_CLASS" :> <<3, 2>>
    @@ "GET_LEN" :> <<1, 2>>
    @@ "MATCH_MAPPING" :> <<1, 2>>
    @@ "MATCH_SEQUENCE" :> <<1, 2>>
    @@ "MATCH_KEYS" :> <<2, 4>>

\* The keys of the dict.
FixedNames == DOMAIN fixed_stack_effects_detail

\* The names the elif chain of stack_effect_detail compares opname with.
ComputedNames ==
    {"ROT_N", "BUILD_TUPLE", "BUILD_LIST", "BUILD_SET", "BUILD_STRING", "BUILD_MAP",
     "BUILD_CONST_KEY_MAP", "JUMP_IF_TRUE_OR_POP", "JUMP_IF_FALSE_OR_POP",
     "SETUP_FINALLY", "RAISE_VARARGS", "CALL_FUNCTION", "CALL_METHOD",
     "CALL_FUNCTION_KW", "CALL_FUNCTION_EX", "MAKE_FUNCTION", "BUILD_SLICE",
     "SETUP_ASYNC_WITH", "FORMAT_VALUE", "UNPACK_SEQUENCE", "UNPACK_EX", "FOR_ITER"}

\* Python's a & b on non-negative ints.
RECURSIVE BitAnd(_, _)
BitAnd(a, b) ==
    IF a = 0 \/ b = 0 THEN 0
    ELSE (a % 2) * (b % 2) + 2 * BitAnd(a \div 2, b \div 2)

\* Python's a >> n on a non-negative int.
RECURSIVE ShiftRight(_, _)
ShiftRight(a, n) == IF n = 0 THEN a ELSE ShiftRight(a \div 2, n - 1)

\* A bool used as an int in an addition (True is 1, False is 0).
BoolAsInt(b) == IF b THEN 1 ELSE 0

\* What a call produces: the returned tuple, or the raised exception.
Return(pair) == [kind |-> "return", pair |-> pair]
Raise(exc) == [kind |-> exc, pair |-> <<>>]
NotCalled == [kind |-> "not called", pair |-> <<>>]

\* The final else falling back to a neutral effect instead of raising.
invalid_opname_neutral_effect(name) == Return(<<0, 0>>)

\* Lines 169-170: the final else of stack_effect_detail.
invalid_opname(name) == Raise("ValueError")

\* Lines 128-170: the elif chain of stack_effect_detail, reached when opname is
\* not a key of fixed_stack_effects_detail.
elif_chain(name, arg, jmp) ==
    CASE name = "ROT_N" -> Return(<<arg, arg>>)
      [] name \in {"BUILD_TUPLE", "BUILD_LIST", "BUILD_SET", "BUILD_STRING"} ->
            Return(<<arg, 1>>)
      [] name = "BUILD_MAP" -> Return(<<2 * arg, 1>>)
      [] name = "BUILD_CONST_KEY_MAP" -> Return(<<arg + 1, 1>>)
      [] name \in {"JUMP_IF_TRUE_OR_POP", "JUMP_IF_FALSE_OR_POP"} ->
            IF jmp THEN Return(<<1, 1>>) ELSE Return(<<1, 0>>)
      [] name = "SETUP_FINALLY" -> IF jmp THEN Return(<<0, 6>>) ELSE Return(<<0, 0>>)
      [] name = "RAISE_VARARGS" -> Return(<<arg, 0>>)
      [] name = "CALL_FUNCTION" -> Return(<<arg + 1, 1>>)
      [] name = "CALL_METHOD" -> Return(<<arg + 2, 1>>)
      [] name = "CALL_FUNCTION_KW" -> Return(<<arg + 2, 1>>)
      [] name = "CALL_FUNCTION_EX" ->
            Return(<<2 + BoolAsInt(BitAnd(arg, 1) # 0), 1>>)
      [] name = "MAKE_FUNCTION" ->
            Return(<<2 + BoolAsInt(BitAnd(arg, 1) # 0) + BoolAsInt(BitAnd(arg, 2) # 0)
                       + BoolAsInt(BitAnd(arg, 4) # 0) + BoolAsInt(BitAnd(arg, 8) # 0),
                     1>>)
      [] name = "BUILD_SLICE" -> Return(<<arg, 1>>)
      [] name = "SETUP_ASYNC_WITH" -> IF jmp THEN Return(<<1, 6>>) ELSE Return(<<0, 0>>)
      [] name = "FORMAT_VALUE" ->
            IF BitAnd(arg, 4) # 0 THEN Return(<<2, 1>>) ELSE Return(<<1, 1>>)
      [] name = "UNPACK_SEQUENCE" -> Return(<<1, arg>>)
      [] name = "UNPACK_EX" -> Return(<<1, BitAnd(arg, 255) + ShiftRight(arg, 8) + 1>>)
      [] name = "FOR_ITER" -> IF jmp THEN Return(<<1, 0>>) ELSE Return(<<1, 2>>)
      [] OTHER -> invalid_opname(name)

\* stack_effect_detail with BUILD_MAP counted like BUILD_TUPLE (one value per entry).
stack_effect_detail_build_map_as_tuple(name, arg, jmp) ==
    IF name \in DOMAIN fixed_stack_effects_detail
    THEN Return(fixed_stack_effects_detail[name])
    ELSE IF name = "BUILD_MAP" THEN Return(<<arg, 1>>)
    ELSE elif_chain(name, arg, jmp)

\* stack_effect_detail with the conditional pops handled by a branch rule placed
\* ahead of the table lookup.
stack_effect_detail_branch_rule_first(name, arg, jmp) ==
    IF name \in {"POP_JUMP_IF_FALSE", "POP_JUMP_IF_TRUE"}
    THEN (IF jmp THEN Return(<<1, 0>>) ELSE Return(<<1, 1>>))
    ELSE IF name \in DOMAIN fixed_stack_effects_detail
    THEN Return(fixed_stack_effects_detail[name])
    ELSE elif_chain(name, arg, jmp)

\* Lines 125-170.
stack_effect_detail(name, arg, jmp) ==
    IF name \in DOMAIN fixed_stack_effects_detail
    THEN Return(fixed_stack_effects_detail[name])
    ELSE elif_chain(name, arg, jmp)

\* A value of the running Python program that is an int or a str: the two
\* kinds never compare equal.
PyInt(i) == [type |-> "int", int |-> i, str |-> ""]
PyStr(s) == [type |-> "str", int |-> 0, str |-> s]

\* dis.hasjabs and dis.hasjrel of CPython 3.10 (lists of opcode numbers), and
\* the part of dis.opmap that names them.
hasjabs == {111, 112, 113, 114, 115, 121}
hasjrel == {93, 110, 122, 143, 154}
opmap ==
       "FOR_ITER" :> 93
    @@ "JUMP_FORWARD" :> 110
    @@ "JUMP_IF_FALSE_OR_POP" :> 111
    @@ "JUMP_IF_TRUE_OR_POP" :> 112
    @@ "JUMP_ABSOLUTE" :> 113
    @@ "POP_JUMP_IF_FALSE" :> 114
    @@ "POP_JUMP_IF_TRUE" :> 115
    @@ "JUMP_IF_NOT_EXC_MATCH" :> 121
    @@ "SETUP_FINALLY" :> 122
    @@ "SETUP_WITH" :> 143
    @@ "SETUP_ASYNC_WITH" :> 154

\* Line 173.
jump_instructions == {PyInt(i) : i \in hasjabs} \cup {PyInt(i) : i \in hasjrel}

\* Line 175.
unconditional_jump_names ==
    {"JUMP_ABSOLUTE", "JUMP_FORWARD", "JUMP_BACKWARD", "JUMP_BACKWARD_NO_INTERRUPT"}

\* Names in neither table that a decoder can meet: the two Python 3.11 names of
\* unconditional_jump_names, a Python 3.10 instruction the tables leave out, and
\* a name of no instruction.
OtherNames == {"JUMP_BACKWARD", "JUMP_BACKWARD_NO_INTERRUPT", "SETUP_WITH", "NOT_AN_OPNAME"}

OpNames == FixedNames \cup ComputedNames \cup OtherNames

\* The arguments of one call, the call not yet made.
InitStack ==
    /\ opname \in OpNames
    /\ oparg \in 0..MaxOparg
    /\ jump \in BOOLEAN
    /\ se_result = NotCalled

\* One call stack_effect_detail(opname, oparg, jump=jump).
CallStackEffectDetail ==
    /\ se_result = NotCalled
    /\ se_result' = stack_effect_detail(opname, oparg, jump)
    /\ UNCHANGED <<opname, oparg, jump>>

----------------------------------------------------------------------------
(***************************************************************************)
(* torch_autograd.py: insert_bsym_to_allreduce_grads                       *)
(***************************************************************************)

\* Number of bound symbols ahead of the return of a backward trace.
MaxOps == 2
\* Largest number of slots of the returned gradient tuple.
MaxRet == 3

\* Sizes of the process group.
GroupSizes == {2, 4}

\* Values a trace holds: proxies (a kind and the number of the name) and
\* Python constants.
TensorProxy(n) == [kind |-> "TensorProxy", id |-> n]
FutureTensorProxy(n) == [kind |-> "FutureTensorProxy", id |-> n]
None == [kind |-> "None", id |-> 0]
NumberValue == [kind |-> "Number", id |-> 7]
True == [kind |-> "bool", id |-> 1]
Float(n) == [kind |-> "float", id |-> n]
ProcessGroup == [kind |-> "ProcessGroup", id |-> 0]
ReduceOpSum == [kind |-> "DistributedReduceOps", id |-> 0]

\* isinstance(v, TensorProxy).
IsTensorProxy(v) == v.kind = "TensorProxy"

\* A bound symbol: the symbol id, the bound arguments and the flat outputs.
BoundSymbol(sym_id, bound_args, flat_outs) ==
    [sym |-> sym_id, args |-> bound_args, outs |-> flat_outs]

\* The outputs the n-th bound symbol of a backward trace may have: none (a del),
\* one tensor, or two tensors around a number.
OutChoices(n) ==
    {<<>>, <<TensorProxy(n)>>, <<TensorProxy(n), NumberValue, TensorProxy(MaxOps + n)>>}

\* The set of elements of a sequence.
Range(s) == {s[i] : i \in 1..Len(s)}

\* The sequences over S of length at most n.
SeqUpTo(S, n) == UNION {[1..m -> S] : m \in 0..n}

\* The tensor proxies the bound symbols of a trace produce.
ProducedTensors(bsyms) ==
    {v \in UNION {Range(bsyms[i].outs) : i \in 1..Len(bsyms)} : IsTensorProxy(v)}

\* The bound symbols ahead of the return of a backward trace: the n-th has one
\* of the outputs of OutChoices(n), so every proxy has one producer.
OpsOfTrace ==
    { [n \in 1..MaxOps |-> BoundSymbol("op", <<>>, outs[n])] :
        outs \in { f \in [1..MaxOps -> UNION {OutChoices(n) : n \in 1..MaxOps}] :
                     \A n \in 1..MaxOps : f[n] \in OutChoices(n) } }

\* The values the final return of a trace with bound symbols ops may return: at
\* most MaxRet slots, each a tensor some bound symbol of the trace produces,
\* None or a number.
ReturnsOfTrace(ops) == SeqUpTo(ProducedTensors(ops) \cup {None, NumberValue}, MaxRet)

\* The first proxy name the rewrite hands out: past every name of the trace.
FirstFreshName == 2 * MaxOps + 1

\* Lines 250-254: the ProxyDict with True under the name of every tensor of
\* gradients.
initial_grad_to_future(grads) ==
    [n \in {g.id : g \in {v \in Range(grads) : IsTensorProxy(v)}} |-> True]

\* Line 248: world_size = float(pg.size()).
float_world_size(size) == Float(size)

\* Line 275: the bound symbol ltorch.true_divide(grad, world_size) records; its
\* output is the proxy named name.
true_divide(grad, ws, name) ==
    BoundSymbol("true_divide", <<grad, ws>>, <<TensorProxy(name)>>)

\* The reduction ltorch.all_reduce applies when the caller passes no op.
default_reduce_op == ReduceOpSum

\* Line 276: the bound symbol ltorch.all_reduce(preaveraged, group=pg,
\* async_op=True) records: arguments (a, op, group, async_op), output a future.
all_reduce(preaveraged, name) ==
    BoundSymbol("all_reduce", <<preaveraged, default_reduce_op, ProcessGroup, True>>,
                <<FutureTensorProxy(name)>>)

\* Line 265: the bound symbol dist_prims.wait(x) records, x being whatever
\* grad_to_future holds for the gradient.
wait(x, name) == BoundSymbol("wait", <<x>>, <<TensorProxy(name)>>)

\* The loop body with the all-reduce issued on the gradient itself, the
\* pre-averaged tensor left unused.
communicate_one_without_preaverage(grad, ws, st) ==
    LET preaveraged == true_divide(grad, ws, st.next)
        future == all_reduce(grad, st.next + 1)
    IN  [bsyms |-> st.bsyms \o <<preaveraged, future>>,
         g2f |-> [st.g2f EXCEPT ![grad.id] = future.outs[1]],
         next |-> st.next + 2]

\* Lines 275-277: one iteration of the loop over grads_of_bsym. st holds the bound
\* symbols recorded so far, grad_to_future and the next free proxy name.
communicate_one(grad, ws, st) ==
    LET preaveraged == true_divide(grad, ws, st.next)
        future == all_reduce(preaveraged.outs[1], st.next + 1)
    IN  [bsyms |-> st.bsyms \o <<preaveraged, future>>,
         g2f |-> [st.g2f EXCEPT ![grad.id] = future.outs[1]],
         next |-> st.next + 2]

\* Lines 274-277: the loop over grads_of_bsym, from its i-th element.
RECURSIVE communicate_all(_, _, _, _)
communicate_all(grads_of_bsym, i, ws, st) ==
    IF i > Len(grads_of_bsym) THEN st
    ELSE communicate_all(grads_of_bsym, i + 1, ws, communicate_one(grads_of_bsym[i], ws, st))

\* The return element for one slot, a value that is no tensor returned as it is.
return_element_keeping_value(grad, st) ==
    IF IsTensorProxy(grad)
    THEN LET w == wait(st.g2f[grad.id], st.next)
         IN  [bsyms |-> st.bsyms \o <<w>>, rets |-> st.rets \o <<w.outs[1]>>,
              g2f |-> st.g2f, next |-> st.next + 1]
    ELSE [st EXCEPT !.rets = st.rets \o <<grad>>]

\* Line 265: one element of the list comprehension: the output of a wait on the
\* gradient's entry of grad_to_future for a tensor, else None.
return_element(grad, st) ==
    IF IsTensorProxy(grad)
    THEN LET w == wait(st.g2f[grad.id], st.next)
         IN  [bsyms |-> st.bsyms \o <<w>>, rets |-> st.rets \o <<w.outs[1]>>,
              g2f |-> st.g2f, next |-> st.next + 1]
    ELSE [st EXCEPT !.rets = st.rets \o <<None>>]

\* Lines 264-267: the list comprehension over gradients, from its i-th element.
RECURSIVE return_elements(_, _, _)
return_elements(grads, i, st) ==
    IF i > Len(grads) THEN st
    ELSE return_elements(grads, i + 1, return_element(grads[i], st))

\* Line 270: grads_of_bsym, the tracked tensors among the flat outputs of bsym.
tracked_outputs(bsym, g2f) ==
    SelectSeq(bsym.outs, LAMBDA t : IsTensorProxy(t) /\ t.id \in DOMAIN g2f)

\* The visitor asking for what it records to be placed ahead of the visited
\* bound symbol instead of after it.
AllReduceGradVisitor_call_insert_before(bsym, grads, ws, g2f, next) ==
    IF bsym.sym = "RETURN"
    THEN LET st == return_elements(grads, 1,
                       [bsyms |-> <<>>, rets |-> <<>>, g2f |-> g2f, next |-> next])
         IN  [visit_type |-> "REPLACE",
              recorded |-> st.bsyms \o <<BoundSymbol("RETURN", st.rets, <<>>)>>,
              g2f |-> st.g2f, next |-> st.next]
    ELSE LET st == communicate_all(tracked_outputs(bsym, g2f), 1, ws,
                       [bsyms |-> <<>>, g2f |-> g2f, next |-> next])
         IN  [visit_type |-> "INSERT_BEFORE", recorded |-> st.bsyms,
              g2f |-> st.g2f, next |-> st.next]

\* Lines 260-279: AllReduceGradVisitor.__call__(bsym). Gives the VISIT_TYPE it
\* returns, the bound symbols it records, and grad_to_future and the next free
\* proxy name after it.
AllReduceGradVisitor_call(bsym, grads, ws, g2f, next) ==
    IF bsym.sym = "RETURN"
    THEN LET st == return_elements(grads, 1,
                       [bsyms |-> <<>>, rets |-> <<>>, g2f |-> g2f, next |-> next])
         IN  [visit_type |-> "REPLACE",
              recorded |-> st.bsyms \o <<BoundSymbol("RETURN", st.rets, <<>>)>>,
              g2f |-> st.g2f, next |-> st.next]
    ELSE LET st == communicate_all(tracked_outputs(bsym, g2f), 1, ws,
                       [bsyms |-> <<>>, g2f |-> g2f, next |-> next])
         IN  [visit_type |-> "INSERT_AFTER", recorded |-> st.bsyms,
              g2f |-> st.g2f, next |-> st.next]

\* visitor_transform's use of one visit: what the visit recorded replaces the
\* visited bound symbol (REPLACE) or follows it (INSERT_AFTER).
visitor_transform_place(bsym, visit_type, recorded) ==
    CASE visit_type = "REPLACE" -> recorded
      [] visit_type = "INSERT_AFTER" -> <<bsym>> \o recorded
      [] visit_type = "INSERT_BEFORE" -> recorded \o <<bsym>>
      [] OTHER -> <<bsym>>

\* The arguments of one call, the call not yet started: a backward trace (its
\* bound symbols, the last one the RETURN) and a process group.
InitAllReduce ==
    /\ \E ops \in OpsOfTrace : \E ret \in ReturnsOfTrace(ops) :
          backward_trace = ops \o <<BoundSymbol("RETURN", ret, <<>>)>>
    /\ world_size \in GroupSizes
    /\ ar_pc = "start"
    /\ gradients = <<>>
    /\ grad_to_future = <<>>
    /\ visit_index = 1
    /\ new_bsyms = <<>>
    /\ next_name = FirstFreshName

\* Lines 247-254: flatten backward_trace.output (the arguments of the final
\* return) and fill grad_to_future.
AllReduceSetup ==
    /\ ar_pc = "start"
    /\ gradients' = backward_trace[Len(backward_trace)].args
    /\ grad_to_future' = initial_grad_to_future(gradients')
    /\ ar_pc' = "visit"
    /\ UNCHANGED <<backward_trace, world_size, visit_index, new_bsyms, next_name>>

\* Lines 281-285: visitor_transform visits the next bound symbol of
\* backward_trace with AllReduceGradVisitor.
VisitBoundSymbol ==
    /\ ar_pc = "visit"
    /\ visit_index <= Len(backward_trace)
    /\ LET bsym == backward_trace[visit_index]
           v == AllReduceGradVisitor_call(bsym, gradients, float_world_size(world_size),
                                          grad_to_future, next_name)
       IN  /\ new_bsyms' = new_bsyms \o visitor_transform_place(bsym, v.visit_type, v.recorded)
           /\ grad_to_future' = v.g2f
           /\ next_name' = v.next
    /\ visit_index' = visit_index + 1
    /\ UNCHANGED <<backward_trace, world_size, ar_pc, gradients>>

\* Line 286: every bound symbol visited, the new trace is returned.
AllReduceReturn ==
    /\ ar_pc = "visit"
    /\ visit_index > Len(backward_trace)
    /\ ar_pc' = "done"
    /\ UNCHANGED <<backward_trace, world_size, gradients, grad_to_future, visit_index,
                   new_bsyms, next_name>>

----------------------------------------------------------------------------
(***************************************************************************)
(* torch_autograd.py: split_forward_backward                               *)
(***************************************************************************)

\* Largest number of flattened arguments of a call.
MaxArgs == 3
\* Largest number of saved tensors of the backward trace, and largest
\* compile_data.num_constant_args.
MaxSaved == 2

\* A flattened argument: whether it is a torch.Tensor or TensorProxy, and the
\* value of its requires_grad attribute (False for a value that has none).
FlatArg(is_tensor, requires_grad) == [is_tensor |-> is_tensor, requires_grad |-> requires_grad]

FlatArgs == {FlatArg(t, r) : t \in BOOLEAN, r \in BOOLEAN}

\* compile_stats: None, or a record with the three traces it can hold.
NoStats == [given |-> FALSE, primal_trace |-> "unset", forward_last_traces |-> "unset",
            backward_last_traces |-> "unset"]
EmptyStats == [given |-> TRUE, primal_trace |-> "unset", forward_last_traces |-> "unset",
               backward_last_traces |-> "unset"]

\* Line 43: isinstance(arg, tensor_cls) and arg.requires_grad, for every argument.
mask_of(flat) == [i \in 1..Len(flat) |-> flat[i].is_tensor /\ flat[i].requires_grad]

\* The check of line 45 dropped.
no_input_requires_grad_unchecked(mask) == FALSE

\* Line 45: not any(requires_grad_mask).
no_input_requires_grad(mask) == ~(\E i \in 1..Len(mask) : mask[i])

\* The gradient the backward trace computes for the i-th flat input.
computed_grad(i) == TensorProxy(i)

\* The return of the backward trace forward_and_backward_from_trace builds: a
\* tuple of input gradients, one per flat input, in flat-input order.
backward_return_of(flat) == [i \in 1..Len(flat) |-> computed_grad(i)]

\* The gradient tuple left as the backward trace computes it.
filtered_grads_unfiltered(grads, mask) == grads

\* Lines 63-66: filtered_grads, over safe_zip(grads, requires_grad_mask).
filtered_grads(grads, mask) ==
    [i \in 1..Len(grads) |-> IF mask[i] THEN grads[i] ELSE None]

\* A compiled callable: a trace's python_callable(), plain or inside a
\* CUDAGraphExecutor with its num_constant_args.
PythonCallable(trace) == [trace |-> trace, cudagraph |-> FALSE, num_constant_args |-> 0]
CUDAGraphExecutor(fn, n) == [fn EXCEPT !.cudagraph = TRUE, !.num_constant_args = n]

\* The cudagraph test written beside the statistics test, not inside it.
returned_pair_cudagraphs_beside_stats(stats, cudagraphs, n_constant, n_saved) ==
    IF cudagraphs.compile_data \/ cudagraphs.compile_config
    THEN <<CUDAGraphExecutor(PythonCallable("fw_extrace"), n_constant),
           CUDAGraphExecutor(PythonCallable("bw_extrace"), n_saved)>>
    ELSE <<PythonCallable("fw_extrace"), PythonCallable("bw_extrace")>>

\* Lines 121-133: the pair the call returns. The cudagraph test of line 126 is
\* inside the body of "if compile_stats is not None".
returned_pair(stats, cudagraphs, n_constant, n_saved) ==
    IF stats.given /\ (cudagraphs.compile_data \/ cudagraphs.compile_config)
    THEN <<CUDAGraphExecutor(PythonCallable("fw_extrace"), n_constant),
           CUDAGraphExecutor(PythonCallable("bw_extrace"), n_saved)>>
    ELSE <<PythonCallable("fw_extrace"), PythonCallable("bw_extrace")>>

\* Lines 121-124: compile_stats after the call.
recorded_stats(stats) ==
    IF stats.given
    THEN [stats EXCEPT !.primal_trace = "primal_trace",
                       !.forward_last_traces = "fw_extrace",
                       !.backward_last_traces = "bw_extrace"]
    ELSE stats

\* Outcomes of the call.
SplitNotCalled == [kind |-> "not called", pair |-> <<>>]
SplitReturn(pair) == [kind |-> "return", pair |-> pair]
SplitRaise(exc) == [kind |-> exc, pair |-> <<>>]

\* The arguments of one call and what the call closes over, the call not yet
\* started.
InitSplit ==
    /\ flat_args \in SeqUpTo(FlatArgs, MaxArgs)
    /\ compile_stats \in {NoStats, EmptyStats}
    /\ use_cudagraphs \in [compile_data : BOOLEAN, compile_config : BOOLEAN]
    /\ num_constant_args \in 0..MaxSaved
    /\ num_saved \in 0..MaxSaved
    /\ sp_pc = "bind"
    /\ requires_grad_mask = <<>>
    /\ bw_return = <<>>
    /\ calls = <<>>
    /\ sp_result = SplitNotCalled

\* Lines 38-48: bind and flatten the arguments, compute requires_grad_mask, and
\* raise RuntimeError when no input requires a gradient.
BindAndCheck ==
    /\ sp_pc = "bind"
    /\ requires_grad_mask' = mask_of(flat_args)
    /\ IF no_input_requires_grad(requires_grad_mask')
       THEN sp_pc' = "raised" /\ sp_result' = SplitRaise("RuntimeError")
       ELSE sp_pc' = "trace" /\ UNCHANGED sp_result
    /\ UNCHANGED <<flat_args, compile_stats, use_cudagraphs, num_constant_args, num_saved,
                   bw_return, calls>>

\* A statement that calls into the compiler: the call is logged and the
\* statement at position to is next.
CompilerCall(from, names, to) ==
    /\ sp_pc = from
    /\ calls' = calls \o names
    /\ sp_pc' = to

\* Lines 50-51: primal_trace = make_trace(func)(...), sort_data_parallel_syncs.
MakeTrace ==
    /\ CompilerCall("trace", <<"trace", "sort_data_parallel_syncs">>, "differentiate")
    /\ UNCHANGED <<flat_args, compile_stats, use_cudagraphs, num_constant_args, num_saved,
                   requires_grad_mask, bw_return, sp_result>>

\* Line 58: forward_and_backward_from_trace gives fw_trace and bw_trace.
Differentiate ==
    /\ CompilerCall("differentiate", <<"forward_and_backward_from_trace">>, "filter")
    /\ bw_return' = backward_return_of(flat_args)
    /\ UNCHANGED <<flat_args, compile_stats, use_cudagraphs, num_constant_args, num_saved,
                   requires_grad_mask, sp_result>>

\* Lines 62-69: the return of bw_trace is replaced by one over filtered_grads.
FilterGrads ==
    /\ sp_pc = "filter"
    /\ bw_return' = filtered_grads(bw_return, requires_grad_mask)
    /\ sp_pc' = "transform_fw"
    /\ UNCHANGED <<flat_args, compile_stats, use_cudagraphs, num_constant_args, num_saved,
                   requires_grad_mask, calls, sp_result>>

\* Lines 73-76: transform_for_execution on the forward trace.
TransformForward ==
    /\ CompilerCall("transform_fw", <<"transform_for_execution">>, "swap")
    /\ UNCHANGED <<flat_args, compile_stats, use_cudagraphs, num_constant_args, num_saved,
                   requires_grad_mask, bw_return, sp_result>>

\* Lines 81-102: the saved tensors the forward pass renamed are swapped in the
\* bound symbols of the backward trace.
SwapSavedTensors ==
    /\ CompilerCall("swap", <<"replace_redundant_inputs">>, "transform_bw")
    /\ UNCHANGED <<flat_args, compile_stats, use_cudagraphs, num_constant_args, num_saved,
                   requires_grad_mask, bw_return, sp_result>>

\* Lines 106-119: transform_for_execution on the backward trace,
\* rematerialize_forward_and_backward, sort_waits and del_last_used on both.
TransformBackward ==
    /\ CompilerCall("transform_bw",
                    <<"transform_for_execution", "rematerialize_forward_and_backward",
                      "sort_waits", "del_last_used", "del_last_used">>, "finish")
    /\ UNCHANGED <<flat_args, compile_stats, use_cudagraphs, num_constant_args, num_saved,
                   requires_grad_mask, bw_return, sp_result>>

\* Lines 121-133: record the traces on compile_stats and return the pair.
RecordAndReturn ==
    /\ sp_pc = "finish"
    /\ compile_stats' = recorded_stats(compile_stats)
    /\ sp_result' = SplitReturn(returned_pair(compile_stats, use_cudagraphs,
                                              num_constant_args, num_saved))
    /\ sp_pc' = "done"
    /\ UNCHANGED <<flat_args, use_cudagraphs, num_constant_args, num_saved,
                   requires_grad_mask, bw_return, calls>>

----------------------------------------------------------------------------
(***************************************************************************)
(* nanogpt_training_bench.py                                               *)
(***************************************************************************)

\* Line 156: the number of steps of the burn-in stage and of the measured stage.
BurninSteps == 10
MeasuredSteps == 20

\* Nodes of a distributed run and processes per node.
MaxNodes == 2
MaxProcsPerNode == 2

\* The command lines argparse accepts (lines 43-58), as far as the script's
\* control flow reads them; bucket_positive is bucket_size_in_mb > 0.
CommandLines ==
    [compile_mode : {"thunder", "torch"}, print_loss : BOOLEAN, profile : BOOLEAN,
     nsys_profile : BOOLEAN, dump_extrace : BOOLEAN, skip_torch_compile : BOOLEAN,
     bucket_positive : BOOLEAN]

\* The environments of a process: started by torchrun as process local_rank of
\* a node, with global rank rank and both WORLD_SIZE and LOCAL_RANK set, or
\* started alone with neither or only one of the two set.
Environments ==
    {[has_world_size |-> w, has_local_rank |-> l, rank |-> 0, local_rank |-> 0] :
        w \in BOOLEAN, l \in {FALSE}}
    \cup {[has_world_size |-> FALSE, has_local_rank |-> TRUE, rank |-> 0, local_rank |-> 0]}
    \cup {[has_world_size |-> TRUE, has_local_rank |-> TRUE,
           rank |-> n * MaxProcsPerNode + l, local_rank |-> l] :
            n \in 0..(MaxNodes - 1), l \in 0..(MaxProcsPerNode - 1)}

\* Line 77: "WORLD_SIZE" in os.environ and "LOCAL_RANK" in os.environ.
launched_distributed(env) == env.has_world_size /\ env.has_local_rank

\* local_rank: None (line 76) or int(os.environ["LOCAL_RANK"]) (line 80).
NoLocalRank == [is_none |-> TRUE, value |-> 0]
LocalRank(n) == [is_none |-> FALSE, value |-> n]

\* dir_for_outputs: None or the directory name of lines 141-145, which has the
\* "_ddp_bucket_size-" part exactly when use_ddp.
NoDir == [is_none |-> TRUE, ddp_part |-> FALSE]
DirName(ddp) == [is_none |-> FALSE, ddp_part |-> ddp]

\* The model before line 105.
NoModel == [built |-> FALSE, wrapped |-> "no", compiled |-> "no", optimizer |-> FALSE]

\* torch.distributed.is_initialized(): init_process_group has run (line 78).
is_initialized == use_ddp

\* Line 139: save_files.
save_files_of(initialized, rank) == ~(initialized /\ rank # 0)

\* The script ends with an exception.
Crash(exc) ==
    /\ b_pc' = "crashed"
    /\ b_error' = exc

\* The number of steps of a stage (the list [10, 20] of line 156).
NumSteps(s) == IF s = 0 THEN BurninSteps ELSE MeasuredSteps

\* One process about to run the script.
InitBench ==
    /\ args \in CommandLines
    /\ environ \in Environments
    /\ b_pc = "check_dump_extrace"
    /\ b_error = ""
    /\ use_ddp = FALSE
    /\ local_rank = NoLocalRank
    /\ model = NoModel
    /\ save_files = FALSE
    /\ dir_for_outputs = NoDir
    /\ stage = 0
    /\ k = 0
    /\ context = "nullcontext"
    /\ put_nvtx_markers = FALSE
    /\ losses = <<>>
    /\ steps_run = <<0, 0>>
    /\ step_events = <<>>
    /\ stdout = <<>>

\* Lines 58-73: the command line is parsed; --dump-extrace asserts
\* compile_mode == "thunder".
CheckDumpExtrace ==
    /\ b_pc = "check_dump_extrace"
    /\ IF args.dump_extrace /\ args.compile_mode # "thunder"
       THEN Crash("AssertionError")
       ELSE b_pc' = "init_distributed" /\ UNCHANGED b_error
    /\ UNCHANGED <<args, environ, use_ddp, local_rank, model, save_files, dir_for_outputs,
                   stage, k, context, put_nvtx_markers, losses, steps_run, step_events,
                   stdout>>

\* Lines 76-85: with WORLD_SIZE and LOCAL_RANK in the environment the process
\* group is initialized; local rank 0 prints the banner.
InitDistributed ==
    /\ b_pc = "init_distributed"
    /\ IF launched_distributed(environ)
       THEN /\ local_rank' = LocalRank(environ.local_rank)
            /\ use_ddp' = TRUE
            /\ stdout' = IF environ.local_rank = 0
                         THEN stdout \o <<"Distributed NanoGPT bench">>
                         ELSE stdout
       ELSE UNCHANGED <<local_rank, use_ddp, stdout>>
    /\ b_pc' = "check_skip_torch_compile"
    /\ UNCHANGED <<args, environ, b_error, model, save_files, dir_for_outputs, stage, k,
                   context, put_nvtx_markers, losses, steps_run, step_events>>

\* Lines 87-88 without the assertion: the script goes on to build the model.
CheckSkipTorchCompile_unasserted ==
    /\ b_pc = "check_skip_torch_compile"
    /\ b_pc' = "build_model"
    /\ UNCHANGED <<args, environ, b_error, use_ddp, local_rank, model, save_files,
                   dir_for_outputs, stage, k, context, put_nvtx_markers, losses,
                   steps_run, step_events, stdout>>

\* Lines 87-88: --skip-torch-compile asserts use_ddp.
CheckSkipTorchCompile ==
    /\ b_pc = "check_skip_torch_compile"
    /\ IF args.skip_torch_compile /\ ~use_ddp
       THEN Crash("AssertionError")
       ELSE b_pc' = "build_model" /\ UNCHANGED b_error
    /\ UNCHANGED <<args, environ, use_ddp, local_rank, model, save_files, dir_for_outputs,
                   stage, k, context, put_nvtx_markers, losses, steps_run, step_events,
                   stdout>>

\* Lines 90-108: seeds, the synthetic batch, and the model constructed.
BuildModel ==
    /\ b_pc = "build_model"
    /\ model' = [model EXCEPT !.built = TRUE]
    /\ b_pc' = "wrap_model"
    /\ UNCHANGED <<args, environ, b_error, use_ddp, local_rank, save_files,
                   dir_for_outputs, stage, k, context, put_nvtx_markers, losses,
                   steps_run, step_events, stdout>>

\* Lines 109-127: under use_ddp the model is wrapped by thunder's ddp or by
\* DistributedDataParallel; then the optimizer is constructed.
WrapModel ==
    /\ b_pc = "wrap_model"
    /\ model' = [model EXCEPT
                   !.wrapped = IF ~use_ddp THEN "no"
                               ELSE IF args.compile_mode = "thunder" THEN "thunder.ddp"
                               ELSE "DistributedDataParallel",
                   !.optimizer = TRUE]
    /\ b_pc' = "compile_model"
    /\ UNCHANGED <<args, environ, b_error, use_ddp, local_rank, save_files,
                   dir_for_outputs, stage, k, context, put_nvtx_markers, losses,
                   steps_run, step_events, stdout>>

\* Lines 129-137: torch.compile unless skipped or the bucket size is not
\* positive, or thunder.compile.
CompileModel ==
    /\ b_pc = "compile_model"
    /\ CASE args.compile_mode = "torch" /\ ~(args.skip_torch_compile \/ ~args.bucket_positive) ->
              /\ stdout' = stdout \o <<"Compiling model using torch.compile...">>
              /\ model' = [model EXCEPT !.compiled = "torch.compile"]
              /\ b_pc' = "prepare_outputs" /\ UNCHANGED b_error
         [] args.compile_mode = "torch" /\ (args.skip_torch_compile \/ ~args.bucket_positive) ->
              /\ UNCHANGED <<stdout, model, b_error>>
              /\ b_pc' = "prepare_outputs"
         [] args.compile_mode = "thunder" ->
              /\ stdout' = stdout \o <<"Compiling model using thunder.compile...">>
              /\ model' = [model EXCEPT !.compiled = "thunder.compile"]
              /\ b_pc' = "prepare_outputs" /\ UNCHANGED b_error
         [] OTHER -> Crash("ValueError") /\ UNCHANGED <<stdout, model>>
    /\ UNCHANGED <<args, environ, use_ddp, local_rank, save_files, dir_for_outputs, stage, k,
                   context, put_nvtx_markers, losses, steps_run, step_events>>

\* Lines 139-154: save_files, dir_for_outputs (None unless save_files), and the
\* directory made.
PrepareOutputs ==
    /\ b_pc = "prepare_outputs"
    /\ save_files' = save_files_of(is_initialized, environ.rank)
    /\ dir_for_outputs' = IF save_files' THEN DirName(use_ddp) ELSE NoDir
    /\ b_pc' = "begin_stage"
    /\ UNCHANGED <<args, environ, b_error, use_ddp, local_rank, model, stage, k, context,
                   put_nvtx_markers, losses, steps_run, step_events, stdout>>

\* Lines 156-172: a stage begins. Entering stage 1 with --profile the profiler
\* is built over os.path.join(dir_for_outputs, f"rank_{get_rank()}"):
\* torch.distributed.get_rank() raises when no process group is initialized, and
\* os.path.join raises TypeError when dir_for_outputs is None. With
\* --nsys-profile the markers are switched on.
BeginStage ==
    /\ b_pc = "begin_stage"
    /\ stage < 2
    /\ IF stage = 1 /\ args.profile /\ ~is_initialized
       THEN Crash("RuntimeError") /\ UNCHANGED <<context, put_nvtx_markers, k>>
       ELSE IF stage = 1 /\ args.profile /\ dir_for_outputs.is_none
       THEN Crash("TypeError") /\ UNCHANGED <<context, put_nvtx_markers, k>>
       ELSE /\ context' = IF stage = 1 /\ args.profile THEN "profiler" ELSE context
            /\ put_nvtx_markers' = IF stage = 1 /\ args.nsys_profile THEN TRUE
                                   ELSE put_nvtx_markers
            /\ k' = 0
            /\ b_pc' = IF NumSteps(stage) > 0 THEN "forward" ELSE "end_stage"
            /\ UNCHANGED b_error
    /\ step_events' = <<>>
    /\ UNCHANGED <<args, environ, use_ddp, local_rank, model, save_files, dir_for_outputs,
                   stage, losses, steps_run, stdout>>

\* A statement of the step: it is logged and the statement at position to is next.
StepStatement(from, to) ==
    /\ b_pc = from
    /\ step_events' = step_events \o <<from>>
    /\ b_pc' = to
    /\ UNCHANGED <<args, environ, b_error, use_ddp, local_rank, model, save_files,
                   dir_for_outputs, stage, k, context, put_nvtx_markers, losses,
                   steps_run, stdout>>

\* Lines 177-183: logits, loss = model(X, Y).
Forward == StepStatement("forward", "backward")

\* Lines 185-189: loss.backward().
Backward == StepStatement("backward", "optimizer.step")

\* Lines 191-195: optimizer.step().
OptimizerStep == StepStatement("optimizer.step", "optimizer.zero_grad")

\* Lines 197-201: optimizer.zero_grad(set_to_none=True).
ZeroGrad == StepStatement("optimizer.zero_grad", "loss")

\* Lines 203-210 with the loss buffered in either stage when it is not printed.
PrintOrBufferLoss_buffering_every_stage ==
    /\ b_pc = "loss"
    /\ IF args.print_loss
       THEN stdout' = stdout \o <<"loss">> /\ UNCHANGED losses
       ELSE losses' = Append(losses, <<stage, k>>) /\ UNCHANGED stdout
    /\ step_events' = <<>>
    /\ steps_run' = [steps_run EXCEPT ![stage + 1] = @ + 1]
    /\ k' = k + 1
    /\ b_pc' = IF k + 1 < NumSteps(stage) THEN "forward" ELSE "end_stage"
    /\ UNCHANGED <<args, environ, b_error, use_ddp, local_rank, model, save_files,
                   dir_for_outputs, stage, context, put_nvtx_markers>>

\* Lines 203-210 and the loop of line 173: the loss is printed, or buffered in
\* stage 1; the step is over.
PrintOrBufferLoss ==
    /\ b_pc = "loss"
    /\ IF args.print_loss
       THEN stdout' = stdout \o <<"loss">> /\ UNCHANGED losses
       ELSE IF stage = 1
       THEN losses' = Append(losses, <<stage, k>>) /\ UNCHANGED stdout
       ELSE UNCHANGED <<losses, stdout>>
    /\ step_events' = <<>>
    /\ steps_run' = [steps_run EXCEPT ![stage + 1] = @ + 1]
    /\ k' = k + 1
    /\ b_pc' = IF k + 1 < NumSteps(stage) THEN "forward" ELSE "end_stage"
    /\ UNCHANGED <<args, environ, b_error, use_ddp, local_rank, model, save_files,
                   dir_for_outputs, stage, context, put_nvtx_markers>>

\* Lines 211-218: the stage is over; after stage 1 the time per iteration is
\* printed.
EndStage ==
    /\ b_pc = "end_stage"
    /\ stdout' = IF stage = 1
                 THEN stdout \o <<IF local_rank.is_none THEN "time per iteration"
                                  ELSE "time per iteration at rank">>
                 ELSE stdout
    /\ stage' = stage + 1
    /\ b_pc' = IF stage + 1 < 2 THEN "begin_stage" ELSE "report"
    /\ UNCHANGED <<args, environ, b_error, use_ddp, local_rank, model, save_files,
                   dir_for_outputs, k, context, put_nvtx_markers, losses, steps_run,
                   step_events>>

\* The "# iteration i, loss" lines of lines 221-227: one per buffered loss when
\* local_rank is None or 0.
RECURSIVE loss_lines(_)
loss_lines(n) == IF n = 0 THEN <<>> ELSE loss_lines(n - 1) \o <<"# iteration loss">>

\* Lines 228-234: the profiler summary, printed when local_rank == 0.
profiler_lines(profile, rank) ==
    IF profile /\ ~rank.is_none /\ rank.value = 0
    THEN <<"# No. of occurrences", "key_averages table">>
    ELSE <<>>

\* Lines 219-242: nsys stopped, the buffered losses reduced and printed, the
\* profiler summary printed, the traces dumped.
Report ==
    /\ b_pc = "report"
    /\ stdout' = stdout
                 \o (IF local_rank.is_none \/ local_rank.value = 0
                     THEN loss_lines(Len(losses)) ELSE <<>>)
                 \o profiler_lines(args.profile, local_rank)
                 \o (IF args.dump_extrace /\ save_files
                     THEN <<"fwd_trace.py", "bwd_trace.py">> ELSE <<>>)
    /\ b_pc' = "done"
    /\ UNCHANGED <<args, environ, b_error, use_ddp, local_rank, model, save_files,
                   dir_for_outputs, stage, k, context, put_nvtx_markers, losses,
                   steps_run, step_events>>

----------------------------------------------------------------------------
(***************************************************************************)
(* Specifications: one per component, the other components at rest         *)
(***************************************************************************)

StackAtRest ==
    /\ opname = "NOP"
    /\ oparg = 0
    /\ jump = FALSE
    /\ se_result = NotCalled

AllReduceAtRest ==
    /\ backward_trace = <<>>
    /\ world_size = 1
    /\ ar_pc = "rest"
    /\ gradients = <<>>
    /\ grad_to_future = <<>>
    /\ visit_index = 1
    /\ new_bsyms = <<>>
    /\ next_name = FirstFreshName

SplitAtRest ==
    /\ flat_args = <<>>
    /\ compile_stats = NoStats
    /\ use_cudagraphs = [compile_data |-> FALSE, compile_config |-> FALSE]
    /\ num_constant_args = 0
    /\ num_saved = 0
    /\ sp_pc = "rest"
    /\ requires_grad_mask = <<>>
    /\ bw_return = <<>>
    /\ calls = <<>>
    /\ sp_result = SplitNotCalled

BenchAtRest ==
    /\ args = [compile_mode |-> "thunder", print_loss |-> FALSE, profile |-> FALSE,
               nsys_profile |-> FALSE, dump_extrace |-> FALSE,
               skip_torch_compile |-> FALSE, bucket_positive |-> TRUE]
    /\ environ = [has_world_size |-> FALSE, has_local_rank |-> FALSE, rank |-> 0,
                 local_rank |-> 0]
    /\ b_pc = "rest"
    /\ b_error = ""
    /\ use_ddp = FALSE
    /\ local_rank = NoLocalRank
    /\ model = NoModel
    /\ save_files = FALSE
    /\ dir_for_outputs = NoDir
    /\ stage = 0
    /\ k = 0
    /\ context = "nullcontext"
    /\ put_nvtx_markers = FALSE
    /\ losses = <<>>
    /\ steps_run = <<0, 0>>
    /\ step_events = <<>>
    /\ stdout = <<>>

NextStack == CallStackEffectDetail /\ UNCHANGED <<arVars, spVars, bVars>>

InitSpecStack == InitStack /\ AllReduceAtRest /\ SplitAtRest /\ BenchAtRest

SpecStack == InitSpecStack /\ [][NextStack]_vars

NextAllReduce ==
    \/ AllReduceSetup /\ UNCHANGED <<seVars, spVars, bVars>>
    \/ VisitBoundSymbol /\ UNCHANGED <<seVars, spVars, bVars>>
    \/ AllReduceReturn /\ UNCHANGED <<seVars, spVars, bVars>>

InitSpecAllReduce == InitAllReduce /\ StackAtRest /\ SplitAtRest /\ BenchAtRest

SpecAllReduce == InitSpecAllReduce /\ [][NextAllReduce]_vars

NextSplit ==
    \/ BindAndCheck /\ UNCHANGED <<seVars, arVars, bVars>>
    \/ MakeTrace /\ UNCHANGED <<seVars, arVars, bVars>>
    \/ Differentiate /\ UNCHANGED <<seVars, arVars, bVars>>
    \/ FilterGrads /\ UNCHANGED <<seVars, arVars, bVars>>
    \/ TransformForward /\ UNCHANGED <<seVars, arVars, bVars>>
    \/ SwapSavedTensors /\ UNCHANGED <<seVars, arVars, bVars>>
    \/ TransformBackward /\ UNCHANGED <<seVars, arVars, bVars>>
    \/ RecordAndReturn /\ UNCHANGED <<seVars, arVars, bVars>>

InitSpecSplit == InitSplit /\ StackAtRest /\ AllReduceAtRest /\ BenchAtRest

SpecSplit == InitSpecSplit /\ [][NextSplit]_vars

NextBench ==
    \/ CheckDumpExtrace /\ UNCHANGED <<seVars, arVars, spVars>>
    \/ InitDistributed /\ UNCHANGED <<seVars, arVars, spVars>>
    \/ CheckSkipTorchCompile /\ UNCHANGED <<seVars, arVars, spVars>>
    \/ BuildModel /\ UNCHANGED <<seVars, arVars, spVars>>
    \/ WrapModel /\ UNCHANGED <<seVars, arVars, spVars>>
    \/ CompileModel /\ UNCHANGED <<seVars, arVars, spVars>>
    \/ PrepareOutputs /\ UNCHANGED <<seVars, arVars, spVars>>
    \/ BeginStage /\ UNCHANGED <<seVars, arVars, spVars>>
    \/ Forward /\ UNCHANGED <<seVars, arVars, spVars>>
    \/ Backward /\ UNCHANGED <<seVars, arVars, spVars>>
    \/ OptimizerStep /\ UNCHANGED <<seVars, arVars, spVars>>
    \/ ZeroGrad /\ UNCHANGED <<seVars, arVars, spVars>>
    \/ PrintOrBufferLoss /\ UNCHANGED <<seVars, arVars, spVars>>
    \/ EndStage /\ UNCHANGED <<seVars, arVars, spVars>>
    \/ Report /\ UNCHANGED <<seVars, arVars, spVars>>

InitSpecBench == InitBench /\ StackAtRest /\ AllReduceAtRest /\ SplitAtRest

SpecBench == InitSpecBench /\ [][NextBench]_vars

----------------------------------------------------------------------------
(***************************************************************************)
(* Properties of python_ir_data.py, under SpecStack                        *)
(***************************************************************************)

\* Bit b of a non-negative operand, as 0 or 1.
OperandBit(n, b) == (n \div (2 ^ b)) % 2

\* The instructions whose rule reads the branch-taken flag.
BranchingRuleNames ==
    {"JUMP_IF_TRUE_OR_POP", "JUMP_IF_FALSE_OR_POP", "SETUP_FINALLY", "SETUP_ASYNC_WITH",
     "FOR_ITER"}

\* The (pop, push) pair of the rule table, by row.
RuleTablePair(name, n, taken) ==
    CASE name = "ROT_N" -> <<n, n>>
      [] name \in {"BUILD_TUPLE", "BUILD_LIST", "BUILD_SET", "BUILD_STRING"} -> <<n, 1>>
      [] name = "BUILD_MAP" -> <<n + n, 1>>
      [] name = "BUILD_CONST_KEY_MAP" -> <<n + 1, 1>>
      [] name \in {"JUMP_IF_TRUE_OR_POP", "JUMP_IF_FALSE_OR_POP"} ->
            <<1, IF taken THEN 1 ELSE 0>>
      [] name = "SETUP_FINALLY" -> <<0, IF taken THEN 6 ELSE 0>>
      [] name = "RAISE_VARARGS" -> <<n, 0>>
      [] name = "CALL_FUNCTION" -> <<n + 1, 1>>
      [] name \in {"CALL_METHOD", "CALL_FUNCTION_KW"} -> <<n + 2, 1>>
      [] name = "CALL_FUNCTION_EX" -> <<2 + OperandBit(n, 0), 1>>
      [] name = "MAKE_FUNCTION" ->
            <<2 + OperandBit(n, 0) + OperandBit(n, 1) + OperandBit(n, 2)
                + OperandBit(n, 3), 1>>
      [] name = "BUILD_SLICE" -> <<n, 1>>
      [] name = "SETUP_ASYNC_WITH" -> IF taken THEN <<1, 6>> ELSE <<0, 0>>
      [] name = "FORMAT_VALUE" -> <<IF OperandBit(n, 2) = 1 THEN 2 ELSE 1, 1>>
      [] name = "UNPACK_SEQUENCE" -> <<1, n>>
      [] name = "UNPACK_EX" -> <<1, (n % 256) + (n \div 256) + 1>>
      [] name = "FOR_ITER" -> <<1, IF taken THEN 0 ELSE 2>>

\* C6: for every instruction named in the rule table (none of which is in the
\* fixed table), every operand 0..MaxOparg and both values of the branch-taken
\* flag, stack_effect_detail returns the pair of the rule table; for the rules
\* that do not branch the returned pair is the same for both values of the flag.
C6_ComputedEffectsMatchRuleTable ==
    (se_result # NotCalled /\ opname \in ComputedNames) =>
        /\ opname \notin FixedNames
        /\ se_result = Return(RuleTablePair(opname, oparg, jump))
        /\ opname \notin BranchingRuleNames =>
              stack_effect_detail(opname, oparg, ~jump) = se_result

\* C6 witness: UNPACK_EX with high byte 2 and low byte 3 has returned (1, 6).
C6_Witness ==
    /\ opname = "UNPACK_EX"
    /\ oparg = 2 * 256 + 3
    /\ se_result = Return(<<1, 6>>)

\* C7: for every key of fixed_stack_effects_detail the call returns the key's
\* table pair whatever the operand and the branch-taken flag, and no key of the
\* table is one of the names of the operand- or branch-dependent rules.
C7_FixedEffectIgnoresOperandAndBranch ==
    /\ FixedNames \cap ComputedNames = {}
    /\ (se_result # NotCalled /\ opname \in FixedNames) =>
          /\ se_result = Return(fixed_stack_effects_detail[opname])
          /\ \A n \in {0, oparg, MaxOparg} : \A j \in BOOLEAN :
                stack_effect_detail(opname, n, j) = se_result

\* C7 witness: POP_JUMP_IF_TRUE, a branching instruction of the fixed table,
\* called with a non-zero operand and the branch taken, has returned (1, 0).
C7_Witness ==
    /\ opname = "POP_JUMP_IF_TRUE"
    /\ oparg = 7
    /\ jump
    /\ se_result = Return(<<1, 0>>)

\* C8: the call ends with ValueError (invalid opname) and no pair exactly when
\* opname is neither a key of the fixed table nor a name of the computed rules.
C8_InvalidOpnameRaisesExactlyOutsideBothTables ==
    se_result # NotCalled =>
        /\ (opname \notin FixedNames \cup ComputedNames) <=> (se_result.kind = "ValueError")
        /\ se_result.kind = "ValueError" => se_result.pair = <<>>
        /\ se_result.kind # "ValueError" =>
              (se_result.kind = "return" /\ Len(se_result.pair) = 2)

\* C8 witness: a name of neither table has been looked up and ValueError raised.
C8_Witness ==
    /\ opname = "NOT_AN_OPNAME"
    /\ se_result = Raise("ValueError")

\* A name is drawn from jump_instructions when the set holds it, or holds the
\* opcode number Python 3.10 gives it.
DrawnFromJumpInstructions(name) ==
    \/ PyStr(name) \in jump_instructions
    \/ name \in DOMAIN opmap /\ PyInt(opmap[name]) \in jump_instructions

\* C9 (as claimed): unconditional_jump_names has exactly four members and each of
\* them is a member of jump_instructions, the jump instructions of Python 3.10.
C9_UnconditionalJumpNamesAreJumpInstructions ==
    /\ Cardinality(unconditional_jump_names) = 4
    /\ opname \in unconditional_jump_names => DrawnFromJumpInstructions(opname)

----------------------------------------------------------------------------
(***************************************************************************)
(* Properties of insert_bsym_to_allreduce_grads, under SpecAllReduce       *)
(***************************************************************************)

\* The value the final return of the argument trace returns, by slot.
OriginalReturn == backward_trace[Len(backward_trace)].args

\* The last bound symbol of the trace the call built.
NewReturn == new_bsyms[Len(new_bsyms)]

\* v is the output of a wait, ahead of the final return, on the future of an
\* asynchronous sum all-reduce over the group of g divided by the group size.
IsWaitOnAllReduceOfAverage(v, g) ==
    \E w \in 1..(Len(new_bsyms) - 1) :
        /\ new_bsyms[w].sym = "wait"
        /\ new_bsyms[w].outs = <<v>>
        /\ \E a \in 1..(w - 1) :
              /\ new_bsyms[a].sym = "all_reduce"
              /\ new_bsyms[a].outs = new_bsyms[w].args
              /\ Len(new_bsyms[a].outs) = 1
              /\ new_bsyms[a].outs[1].kind = "FutureTensorProxy"
              /\ \E d \in 1..(a - 1) :
                    /\ new_bsyms[d].sym = "true_divide"
                    /\ new_bsyms[d].args = <<g, Float(world_size)>>
                    /\ Len(new_bsyms[d].outs) = 1
                    /\ new_bsyms[a].args =
                          <<new_bsyms[d].outs[1], ReduceOpSum, ProcessGroup, True>>

\* C1: for every backward trace (each returned tensor produced by a bound symbol
\* of the trace) and every group size N, the trace the call returns ends with a
\* return that holds, at each slot where the original return held a gradient
\* tensor, a wait on the future of an asynchronous all-reduce (sum over the
\* group) of that tensor divided by N; and no gradient tensor of the return is
\* still marked "not yet communicated" (True) in grad_to_future.
C1_ReturnWaitsOnAveragedAllReduce ==
    ar_pc = "done" =>
        /\ NewReturn.sym = "RETURN"
        /\ Len(NewReturn.args) = Len(OriginalReturn)
        /\ \A i \in 1..Len(OriginalReturn) :
              IsTensorProxy(OriginalReturn[i]) =>
                  /\ IsWaitOnAllReduceOfAverage(NewReturn.args[i], OriginalReturn[i])
                  /\ OriginalReturn[i].id \in DOMAIN grad_to_future
                  /\ grad_to_future[OriginalReturn[i].id] # True
                  /\ grad_to_future[OriginalReturn[i].id].kind = "FutureTensorProxy"

\* C1 witness: a trace returning two different gradient tensors and one value
\* that is no tensor has been rewritten for a group of size 4.
C1_Witness ==
    /\ ar_pc = "done"
    /\ world_size = 4
    /\ Len(OriginalReturn) = 3
    /\ IsTensorProxy(OriginalReturn[1])
    /\ ~IsTensorProxy(OriginalReturn[2])
    /\ IsTensorProxy(OriginalReturn[3])
    /\ OriginalReturn[1] # OriginalReturn[3]
    /\ NewReturn.sym = "RETURN"

\* C2 (as claimed): every slot of the original return that holds a value that is
\* no tensor, of any kind, holds the same value in the return of the new trace.
C2_NonTensorSlotsUnchanged ==
    ar_pc = "done" =>
        /\ Len(NewReturn.args) = Len(OriginalReturn)
        /\ \A i \in 1..Len(OriginalReturn) :
              ~IsTensorProxy(OriginalReturn[i]) => NewReturn.args[i] = OriginalReturn[i]

\* C2 (amended): every slot of the original return that holds a value that is no
\* tensor holds None in the return of the new trace, so that the slot is
\* unchanged exactly when the value was the absent-gradient marker None.
C2_NonTensorSlotsBecomeNone ==
    ar_pc = "done" =>
        /\ Len(NewReturn.args) = Len(OriginalReturn)
        /\ \A i \in 1..Len(OriginalReturn) :
              ~IsTensorProxy(OriginalReturn[i]) =>
                  /\ NewReturn.args[i] = None
                  /\ (NewReturn.args[i] = OriginalReturn[i]) <=> (OriginalReturn[i] = None)

\* C2 witness: a trace returning a tensor, None and a number has been rewritten.
C2_Witness ==
    /\ ar_pc = "done"
    /\ Len(OriginalReturn) = 3
    /\ IsTensorProxy(OriginalReturn[1])
    /\ OriginalReturn[2] = None
    /\ OriginalReturn[3] = NumberValue
    /\ Len(NewReturn.args) = 3


\* The bound symbols of the argument trace ahead of its final return.
OriginalOps == SubSeq(backward_trace, 1, Len(backward_trace) - 1)

\* The tracked gradients a bound symbol produces: its tensor outputs that the
\* original return holds, in output order.
TrackedGradientsOf(bsym) ==
    SelectSeq(bsym.outs, LAMBDA t : IsTensorProxy(t) /\ t \in Range(OriginalReturn))

\* Directly after position p of the new trace come, for each tracked gradient of
\* the bound symbol at p in turn, its division by the group size and the
\* asynchronous all-reduce of the quotient, and then a bound symbol that is
\* neither: the next original operation or the rewritten return.
CommunicationDirectlyAfter(p) ==
    LET tracked == TrackedGradientsOf(new_bsyms[p])
        after == p + 2 * Len(tracked) + 1
    IN  /\ after <= Len(new_bsyms)
        /\ new_bsyms[after].sym \notin {"true_divide", "all_reduce"}
        /\ \A j \in 1..Len(tracked) :
              /\ new_bsyms[p + 2 * j - 1].sym = "true_divide"
              /\ new_bsyms[p + 2 * j - 1].args = <<tracked[j], Float(world_size)>>
              /\ new_bsyms[p + 2 * j].sym = "all_reduce"
              /\ new_bsyms[p + 2 * j].args[1] = new_bsyms[p + 2 * j - 1].outs[1]
              /\ new_bsyms[p + 2 * j].args[4] = True

\* C13: in the trace the call returns, the original operations ahead of the
\* return appear unmodified and in their original order; each is directly
\* followed by the division and the asynchronous all-reduce of every tracked
\* gradient it produces, ahead of the next original operation; nothing but
\* waits and the return follows a wait, so no wait is ahead of the operations
\* of the rewritten return; every wait is on the future of an all-reduce issued
\* earlier in the trace; and while operations ahead of the return are still
\* being visited the new trace holds no wait.
C13_CommunicationAfterProducerWaitsOnlyAtReturn ==
    /\ (ar_pc = "visit" /\ visit_index <= Len(backward_trace)) =>
          \A i \in 1..Len(new_bsyms) : new_bsyms[i].sym # "wait"
    /\ ar_pc = "done" =>
          /\ SelectSeq(new_bsyms, LAMBDA b : b.sym = "op") = OriginalOps
          /\ new_bsyms[1].sym \notin {"true_divide", "all_reduce"}
          /\ \A p \in 1..Len(new_bsyms) :
                new_bsyms[p].sym = "op" => CommunicationDirectlyAfter(p)
          /\ NewReturn.sym = "RETURN"
          /\ \A w \in 1..Len(new_bsyms) :
                new_bsyms[w].sym = "wait" =>
                    /\ \A j \in (w + 1)..(Len(new_bsyms) - 1) : new_bsyms[j].sym = "wait"
                    /\ \E a \in 1..(w - 1) :
                          /\ new_bsyms[a].sym = "all_reduce"
                          /\ new_bsyms[a].outs = new_bsyms[w].args

\* C13 witness: a trace whose first operation produces two returned gradients
\* and whose second produces a tensor that is not returned has been rewritten:
\* two divisions and all-reduces sit between the two operations and none after
\* the second.
C13_Witness ==
    /\ ar_pc = "done"
    /\ Len(TrackedGradientsOf(backward_trace[1])) = 2
    /\ backward_trace[2].outs # <<>>
    /\ Len(TrackedGradientsOf(backward_trace[2])) = 0
    /\ new_bsyms[1] = backward_trace[1]
    /\ new_bsyms[3].sym = "all_reduce"
    /\ new_bsyms[6] = backward_trace[2]
    /\ new_bsyms[7].sym = "wait"
----------------------------------------------------------------------------
(***************************************************************************)
(* Properties of split_forward_backward, under SpecSplit                   *)
(***************************************************************************)

\* The i-th flat input is a tensor that requires a gradient.
InputRequiresGrad(i) == flat_args[i].is_tensor /\ flat_args[i].requires_grad

\* Line 69 has been executed: the return of bw_trace is the filtered one.
GradsFiltered == sp_pc \in {"transform_fw", "swap", "transform_bw", "finish", "done"}

\* C3: in a call with at least one gradient-requiring flat input, once the
\* return of the backward trace has been rewritten it has one slot per flat
\* input, in flat-input order, holding None at exactly the positions whose input
\* is not a tensor requiring gradient and the computed gradient at the others.
C3_BackwardReturnsNoneExactlyForNonDifferentiableInputs ==
    GradsFiltered =>
        /\ \E i \in 1..Len(flat_args) : InputRequiresGrad(i)
        /\ Len(bw_return) = Len(flat_args)
        /\ \A i \in 1..Len(flat_args) :
              /\ (bw_return[i] = None) <=> ~InputRequiresGrad(i)
              /\ InputRequiresGrad(i) => bw_return[i] = computed_grad(i)

\* C3 witness: a call with three flat inputs, only the second a tensor requiring
\* gradient, the first a tensor that does not, has returned.
C3_Witness ==
    /\ sp_pc = "done"
    /\ Len(flat_args) = 3
    /\ flat_args[1] = FlatArg(TRUE, FALSE)
    /\ InputRequiresGrad(2)
    /\ ~flat_args[3].is_tensor
    /\ bw_return = <<None, computed_grad(2), None>>

\* C4: when no flat input is a tensor requiring gradient, the call ends with
\* RuntimeError as soon as the mask is computed: no tracing, differentiation or
\* optimization call has been made, compile_stats is untouched and no pair is
\* returned; and the call raises in no other case.
C4_NoDifferentiableInputRaisesBeforeTracing ==
    /\ (sp_pc # "bind" /\ \A i \in 1..Len(flat_args) : ~InputRequiresGrad(i)) =>
          /\ sp_pc = "raised"
          /\ sp_result = SplitRaise("RuntimeError")
          /\ calls = <<>>
          /\ bw_return = <<>>
          /\ compile_stats \in {NoStats, EmptyStats}
    /\ sp_result.kind = "RuntimeError" => \A i \in 1..Len(flat_args) : ~InputRequiresGrad(i)

\* C4 witness: a call whose inputs are a tensor with requires_grad=False and a
\* value that is no tensor has raised.
C4_Witness ==
    /\ sp_pc = "raised"
    /\ Len(flat_args) = 2
    /\ flat_args[1] = FlatArg(TRUE, FALSE)
    /\ ~flat_args[2].is_tensor
    /\ sp_result = SplitRaise("RuntimeError")

\* Capture-graph replay is requested by compile-time data or by configuration.
CudagraphsRequested == use_cudagraphs.compile_data \/ use_cudagraphs.compile_config

\* C5 (as claimed): a call that returns gives both callables wrapped in a
\* capture/replay executor whenever replay is requested, whether or not a
\* statistics record was supplied, the forward count being that of compile-time
\* data and the backward count the number of saved tensors; and the plain
\* callables when it is not requested.
C5_CudagraphsWrapWheneverRequested ==
    sp_pc = "done" =>
        IF CudagraphsRequested
        THEN /\ sp_result.pair[1].cudagraph
             /\ sp_result.pair[1].num_constant_args = num_constant_args
             /\ sp_result.pair[2].cudagraph
             /\ sp_result.pair[2].num_constant_args = num_saved
        ELSE ~sp_result.pair[1].cudagraph /\ ~sp_result.pair[2].cudagraph

----------------------------------------------------------------------------
(***************************************************************************)
(* Properties of nanogpt_training_bench.py, under SpecBench                *)
(***************************************************************************)

\* The command line passes both assertions of the script in this environment:
\* --dump-extrace only with compile mode thunder, --skip-torch-compile only in
\* a distributed run.
ValidConfiguration ==
    /\ args.dump_extrace => args.compile_mode = "thunder"
    /\ args.skip_torch_compile => launched_distributed(environ)

\* The script has ended, normally or with an exception.
BenchEnded == b_pc \in {"done", "crashed"}

\* The number of "time per iteration" lines printed so far.
TimeLinesPrinted ==
    Cardinality({i \in 1..Len(stdout) :
                    stdout[i] \in {"time per iteration", "time per iteration at rank"}})

\* C10 (as claimed): for every valid configuration the run executes exactly
\* BurninSteps burn-in steps and then exactly MeasuredSteps measured steps, no
\* measured step starts before the last burn-in step has finished, and the
\* "time per iteration" line is printed exactly once per process, after the
\* measured stage and never after the burn-in stage.
C10_TenBurninThenTwentyMeasuredThenOneTimeLine ==
    /\ (steps_run[2] > 0 \/ (stage = 1 /\ step_events # <<>>)) => steps_run[1] = BurninSteps
    /\ steps_run[1] <= BurninSteps /\ steps_run[2] <= MeasuredSteps
    /\ TimeLinesPrinted <= 1
    /\ TimeLinesPrinted = 1 => steps_run = <<BurninSteps, MeasuredSteps>>
    /\ (BenchEnded /\ ValidConfiguration) =>
          /\ steps_run = <<BurninSteps, MeasuredSteps>>
          /\ TimeLinesPrinted = 1


\* One of the two flag combinations the script rejects: --skip-torch-compile in
\* a run that is not distributed, or --dump-extrace with compile mode torch.
InvalidFlagCombination ==
    \/ args.skip_torch_compile /\ ~launched_distributed(environ)
    \/ args.dump_extrace /\ args.compile_mode = "torch"

\* C11: under either invalid flag combination the script never gets past its
\* assertions: the model is never built, wrapped or compiled, no statement of a
\* training step runs, and when the script has ended it has ended with an
\* AssertionError.
C11_InvalidFlagsAbortBeforeModelConstruction ==
    InvalidFlagCombination =>
        /\ model = NoModel
        /\ steps_run = <<0, 0>>
        /\ step_events = <<>>
        /\ b_pc \in {"check_dump_extrace", "init_distributed", "check_skip_torch_compile",
                     "crashed"}
        /\ b_pc = "crashed" => b_error = "AssertionError"

\* C11 witness: --skip-torch-compile with WORLD_SIZE set but LOCAL_RANK absent,
\* and no --dump-extrace, has ended in the AssertionError of line 88.
C11_Witness ==
    /\ b_pc = "crashed"
    /\ b_error = "AssertionError"
    /\ args.skip_torch_compile
    /\ ~args.dump_extrace
    /\ environ.has_world_size
    /\ ~environ.has_local_rank
    /\ model = NoModel

\* The process that reports: global rank 0 of a distributed run, or the sole
\* process of a run that is not distributed.
IsReportingProcess == ~launched_distributed(environ) \/ environ.rank = 0

\* The profiler summary is on the standard output: the all_reduce occurrence
\* lines followed by the operator-time table.
ProfilerSummaryPrinted ==
    \E i \in 1..(Len(stdout) - 1) :
        /\ stdout[i] = "# No. of occurrences"
        /\ stdout[i + 1] = "key_averages table"

\* C12 (as claimed): the profiler summary is printed only in a run with
\* --profile, only by the reporting process and only once the measured stage has
\* finished; and every run with --profile of a valid configuration, when it has
\* ended, has printed the summary if and only if the process is the reporting
\* process.
C12_ProfilerSummaryPrintedByReportingProcessOnly ==
    /\ ProfilerSummaryPrinted => (args.profile /\ IsReportingProcess /\ stage = 2)
    /\ (args.profile /\ ValidConfiguration /\ BenchEnded) =>
          (ProfilerSummaryPrinted <=> IsReportingProcess)

\* The process is at the head of the measured stage in a run with --profile:
\* the next statement builds the profiler and its artifact path (lines 158-166).
ArmingProfiler == b_pc = "begin_stage" /\ stage = 1 /\ args.profile

\* C14 (as claimed): in a run with --profile, whenever a process is about to arm
\* the profiler its output-directory name is defined, and every process that
\* has entered the measured stage runs it under the armed profiler, the arming
\* not having raised.
C14_DirectoryNameDefinedWhenProfilerArmed ==
    /\ ArmingProfiler => ~dir_for_outputs.is_none
    /\ (args.profile /\ stage = 1 /\ b_pc # "begin_stage") =>
          (context = "profiler" /\ b_pc # "crashed")

\* The statements of a step ahead of the loss being printed or buffered, in the
\* order of lines 177-201.
StatementsAheadOfLoss == <<"forward", "backward", "optimizer.step", "optimizer.zero_grad">>

\* The number of per-step loss lines printed so far.
LossLinesPrinted == Cardinality({i \in 1..Len(stdout) : stdout[i] = "loss"})

\* The loss buffer holds the losses of the first n steps of the measured stage,
\* in step order.
HoldsMeasuredLosses(n) == losses = [i \in 1..n |-> <<1, i - 1>>]

\* The state part of C15: the buffer is empty throughout the burn-in stage and
\* throughout a run with --print-loss; with --print-loss off it holds the losses
\* of the measured steps taken so far in step order, all MeasuredSteps of them
\* once the timed loop is over.
LossBufferHoldsMeasuredLosses ==
    /\ stage = 0 => losses = <<>>
    /\ args.print_loss => losses = <<>>
    /\ ~args.print_loss => HoldsMeasuredLosses(steps_run[2])
    /\ (stage = 2 /\ ~args.print_loss) => HoldsMeasuredLosses(MeasuredSteps)

\* The step part of C15: a loss is appended to the buffer or printed only by a
\* step whose forward, backward, optimizer step and gradient reset have run, in
\* that order, and one loss at a time.
LossHandledAfterStepStatements ==
    (losses' # losses \/ LossLinesPrinted' # LossLinesPrinted) =>
        /\ step_events = StatementsAheadOfLoss
        /\ Len(losses') + LossLinesPrinted' = Len(losses) + LossLinesPrinted + 1

\* C15: the loss buffer only ever receives losses of measured-stage steps taken
\* with --print-loss off: it is empty at every point of the burn-in stage; at the
\* end of the timed loop it holds exactly the MeasuredSteps measured-stage losses
\* in step order when --print-loss is off and is empty when it is on; and in each
\* step the loss is printed or buffered only after that step's forward, backward,
\* optimizer step and gradient reset, in that order.
C15_LossBufferHoldsOnlyMeasuredLossesInOrder ==
    [] LossBufferHoldsMeasuredLosses /\ [][LossHandledAfterStepStatements]_vars

\* C15 witness: a run with --print-loss off has finished the timed loop with all
\* MeasuredSteps losses of the measured stage in the buffer.
C15_Witness ==
    /\ stage = 2
    /\ ~args.print_loss
    /\ steps_run = <<BurninSteps, MeasuredSteps>>
    /\ Len(losses) = MeasuredSteps
    /\ losses[MeasuredSteps] = <<1, MeasuredSteps - 1>>
============================================================================
